---------------------------- MODULE Spec2Model ----------------------------
(***************************************************************************)
(* The SUBARUU line-numbered BASIC interpreter (src/src/subaruu.cc) as a   *)
(* state machine.  One step of the machine is one iteration of the loop of *)
(* SUBARUU::run(); the recursive-descent evaluator is a family of          *)
(* recursive operators over the token stream and the cursor.               *)
(*                                                                         *)
(* Arithmetic is on mathematical integers: every program below keeps its   *)
(* values far inside the range of a C++ int, so no operation overflows.    *)
(***************************************************************************)
EXTENDS Integers, Sequences, FiniteSets, TLC

VARIABLES
    prog,                 \* the token stream the Tokenizer was built on
    pos,                  \* the Tokenizer's cursor: index of the current token
    variables_,           \* SUBARUU::variables_   (char -> int)
    line_positions_,      \* SUBARUU::line_positions_ (its key set)
    execution_finished_,  \* SUBARUU::execution_finished_
    skip_to_line_,        \* SUBARUU::skip_to_line_
    target_line_,         \* SUBARUU::target_line_
    cout,                 \* what was written to std::cout, chunk by chunk
    cerr,                 \* what was written to std::cerr, line by line
    pc                    \* where the caller of the interpreter is

vars == <<prog, pos, variables_, line_positions_, execution_finished_,
          skip_to_line_, target_line_, cout, cerr, pc>>

-----------------------------------------------------------------------------
(* Bounds of the model. *)

\* Operands of the arithmetic and relational program families: -MaxOperand..MaxOperand.
MaxOperand == 3

\* Number of numbered lines of a generated program.
MaxLines == 2

\* The run loop is observed until this many chunks were written to std::cout.
MaxOut == 8

\* The run loop is observed while every register stays within -MaxVal..MaxVal.
MaxVal == 8

-----------------------------------------------------------------------------
(* Tokens.  A token carries its kind, its payload and the raw source       *)
(* character that follows its text (what peek_char() returns while it is   *)
(* the current token): SP, LF, CR, OTHER, or EOS at the end of the source. *)

Tok(t, n, s, c) == [type |-> t, num |-> n, str |-> s, nx |-> c]

K(t) == Tok(t, 0, "", "SP")

N(v, c) == Tok("NUMBER", v, "", c)

V(l) == Tok("LETTER", 0, l, "SP")

S(s) == Tok("STRING", 0, s, "SP")

EOL == Tok("EOL", 0, "", "OTHER")

EOF_TOKEN == Tok("EOF_TOKEN", 0, "", "EOS")

Lower == <<"a", "b", "c", "d", "e", "f", "g", "h", "i", "j", "k", "l", "m",
           "n", "o", "p", "q", "r", "s", "t", "u", "v", "w", "x", "y", "z">>

Upper == <<"A", "B", "C", "D", "E", "F", "G", "H", "I", "J", "K", "L", "M",
           "N", "O", "P", "Q", "R", "S", "T", "U", "V", "W", "X", "Y", "Z">>

Letters == {Lower[i] : i \in 1..Len(Lower)}

\* std::tolower on the char of a LETTER token
ToLower(c) ==
    IF \E i \in 1..Len(Upper) : Upper[i] = c
    THEN Lower[CHOOSE i \in 1..Len(Upper) : Upper[i] = c]
    ELSE c

-----------------------------------------------------------------------------
(* The Tokenizer, as the interpreter uses it. *)

current_token(p) == prog[p].type

get_num(p) == prog[p].num

get_token_data(p) == prog[p].str

get_string(p) == prog[p].str

peek_char(p) == prog[p].nx

tokenizer_finished(p) == prog[p].type = "EOF_TOKEN"

next_token(p) == IF p < Len(prog) THEN p + 1 ELSE p

reset == 1

\* index of the first EOL or EOF_TOKEN at or after p
RECURSIVE LineEnd(_)
LineEnd(p) ==
    IF current_token(p) \in {"EOL", "EOF_TOKEN"} THEN p ELSE LineEnd(p + 1)

\* the cursor after an EOL on q, q itself at the end of the stream
AfterEol(q) == IF current_token(q) = "EOL" THEN next_token(q) ELSE q

skip_to_eol(p) == AfterEol(LineEnd(p))

-----------------------------------------------------------------------------
(* dprintf: a diagnostic line on std::cerr; E_ERROR throws. *)

ErrorLine(message) == "ERROR: " \o message

WarningLine(message) == "WARNING: " \o message

\* An evaluator result: the value, the cursor after it, the lines written to
\* std::cerr and whether a std::runtime_error is propagating.
Val(v, p, d) == [val |-> v, pos |-> p, diag |-> d, thrown |-> FALSE]

Throw(p, d, message) ==
    [val |-> 0, pos |-> p, diag |-> Append(d, ErrorLine(message)), thrown |-> TRUE]

AcceptMessage(p, expectedToken) ==
    "*subaruu.cpp: unexpected '" \o current_token(p) \o "' expected '"
        \o expectedToken \o "'"

\* accept(expectedToken) with the cursor on p
accept_ok(p, expectedToken) == current_token(p) = expectedToken

NotFoundMessage(n) == "Runtime Error: Line number " \o ToString(n) \o " not found"

InternalMessage(n) ==
    "Internal Error: Failed to find valid line number " \o ToString(n)

-----------------------------------------------------------------------------
(* Expression evaluator. *)

IsWhite(c) == c \in {"SP", "LF", "CR"}

is_valid_line_number(p, num) ==
    IF num >= 10 /\ num % 10 = 0
    THEN IF tokenizer_finished(p) THEN TRUE ELSE IsWhite(peek_char(p))
    ELSE FALSE

is_line_number(p) ==
    IF current_token(p) # "NUMBER" THEN FALSE
    ELSE LET num == get_num(p) IN
         IF num >= 10 /\ num % 10 = 0 THEN IsWhite(peek_char(p)) ELSE FALSE

Abs(n) == IF n < 0 THEN -n ELSE n

\* the quotient rounded toward minus infinity
IntDiv_Floor(numerator, denominator) ==
    IF denominator > 0 THEN numerator \div denominator
    ELSE (-numerator) \div (-denominator)

\* the C++ operator / on ints: the quotient truncated toward zero
IntDiv(numerator, denominator) ==
    LET q == Abs(numerator) \div Abs(denominator) IN
    IF (numerator < 0) # (denominator < 0) THEN -q ELSE q

safe_divide(numerator, denominator) ==
    IF denominator = 0
    THEN [val |-> 0, diag |-> <<WarningLine("*warning: divide by zero")>>]
    ELSE [val |-> IntDiv(numerator, denominator), diag |-> <<>>]

ReadVariable(store, var_name) ==
    IF var_name \in DOMAIN store THEN store[var_name] ELSE 0

RECURSIVE factor(_, _), term(_, _), TermLoop(_, _, _), expression(_, _),
          ExpressionLoop(_, _, _)

\* factor(), case LEFT_PAREN: accept(RIGHT_PAREN) after the inner expression e
FactorParen(e) ==
    IF e.thrown THEN e
    ELSE IF accept_ok(e.pos, "RIGHT_PAREN")
         THEN Val(e.val, next_token(e.pos), e.diag)
         ELSE Throw(e.pos, e.diag, AcceptMessage(e.pos, "RIGHT_PAREN"))

factor(p, d) ==
    CASE current_token(p) = "NUMBER" -> Val(get_num(p), next_token(p), d)
      [] current_token(p) = "LETTER" ->
            Val(ReadVariable(variables_, ToLower(get_token_data(p))),
                next_token(p), d)
      [] current_token(p) = "LEFT_PAREN" ->
            FactorParen(expression(next_token(p), d))
      [] OTHER ->
            Throw(p, d, "Syntax Error: Unexpected token in factor: "
                            \o current_token(p))

\* term(), the SLASH branch: q is safe_divide's answer, f the factor
TermDivide(q, f) == TermLoop(q.val, f.pos, f.diag \o q.diag)

\* term(), the body of the while loop after factor() returned f
TermStep(result, token, f) ==
    IF f.thrown THEN f
    ELSE IF token = "ASTERISK"
         THEN TermLoop(result * f.val, f.pos, f.diag)
         ELSE TermDivide(safe_divide(result, f.val), f)

\* the while loop of term(): result so far, cursor, diagnostics so far
TermLoop(result, p, d) ==
    IF current_token(p) \notin {"ASTERISK", "SLASH"} THEN Val(result, p, d)
    ELSE TermStep(result, current_token(p), factor(next_token(p), d))

\* term() after its first factor f
TermFirst(f) == IF f.thrown THEN f ELSE TermLoop(f.val, f.pos, f.diag)

term(p, d) == TermFirst(factor(p, d))

\* expression(), the body of the while loop after term() returned t
ExpressionStep(result, token, t) ==
    IF t.thrown THEN t
    ELSE IF token = "PLUS"
         THEN ExpressionLoop(result + t.val, t.pos, t.diag)
         ELSE ExpressionLoop(result - t.val, t.pos, t.diag)

\* ExpressionLoop taking a factor, not a term, for the right operand
ExpressionLoop_FactorOperand(result, p, d) ==
    IF current_token(p) \notin {"PLUS", "MINUS"} THEN Val(result, p, d)
    ELSE ExpressionStep(result, current_token(p), factor(next_token(p), d))

\* the while loop of expression()
ExpressionLoop(result, p, d) ==
    IF current_token(p) \notin {"PLUS", "MINUS"} THEN Val(result, p, d)
    ELSE ExpressionStep(result, current_token(p), term(next_token(p), d))

\* ExpressionFirst whose line-number exit moves past the number
ExpressionFirst_ExitConsumesNumber(t) ==
    IF t.thrown THEN t
    ELSE IF current_token(t.pos) = "NUMBER"
            /\ is_valid_line_number(t.pos, get_num(t.pos))
         THEN Val(t.val, next_token(t.pos), t.diag)
         ELSE ExpressionLoop(t.val, t.pos, t.diag)

\* expression() after its first term t: the line-number exit, then the loop
ExpressionFirst(t) ==
    IF t.thrown THEN t
    ELSE IF current_token(t.pos) = "NUMBER"
            /\ is_valid_line_number(t.pos, get_num(t.pos))
         THEN t
         ELSE ExpressionLoop(t.val, t.pos, t.diag)

expression(p, d) == ExpressionFirst(term(p, d))

ComparisonTokens == {"EQUAL", "LT", "GT", "LT_EQ", "GT_EQ", "NOT_EQUAL"}

BoolInt(b) == IF b THEN 1 ELSE 0

\* Compare with <= taken for <
Compare_StrictLtEq(op, left, right) ==
    CASE op = "EQUAL" -> BoolInt(left = right)
      [] op = "LT" -> BoolInt(left < right)
      [] op = "GT" -> BoolInt(left > right)
      [] op = "LT_EQ" -> BoolInt(left < right)
      [] op = "GT_EQ" -> BoolInt(left >= right)
      [] op = "NOT_EQUAL" -> BoolInt(left # right)

\* the inner switch of relation()
Compare(op, left, right) ==
    CASE op = "EQUAL" -> BoolInt(left = right)
      [] op = "LT" -> BoolInt(left < right)
      [] op = "GT" -> BoolInt(left > right)
      [] op = "LT_EQ" -> BoolInt(left <= right)
      [] op = "GT_EQ" -> BoolInt(left >= right)
      [] op = "NOT_EQUAL" -> BoolInt(left # right)

\* relation() after the right expression r
RelationRight(op, l, r) ==
    IF r.thrown THEN r ELSE Val(Compare(op, l.val, r.val), r.pos, r.diag)

\* relation() after the left expression l
RelationLeft(l) ==
    IF l.thrown THEN l
    ELSE IF current_token(l.pos) \in ComparisonTokens
         THEN RelationRight(current_token(l.pos), l,
                            expression(next_token(l.pos), l.diag))
         ELSE Val(BoolInt(l.val # 0), l.pos, l.diag)

relation(p, d) == RelationLeft(expression(p, d))

-----------------------------------------------------------------------------
(* Statements.  The effect of one statement: the cursor after it, the new  *)
(* variable store, the chunks written to std::cout, the lines written to   *)
(* std::cerr, whether an exception is propagating and whether               *)
(* execution_finished_ was set.                                             *)

Eff(p, store, out, d, t, fin) ==
    [pos |-> p, store |-> store, out |-> out, diag |-> d, thrown |-> t,
     fin |-> fin]

Fatal(p, out, d, message) ==
    Eff(p, variables_, out, Append(d, ErrorLine(message)), TRUE, FALSE)

\* variables_[var_name] = value on the std::map
StoreVariable(store, var_name, value) ==
    [x \in DOMAIN store \cup {var_name} |->
        IF x = var_name THEN value ELSE store[x]]

\* LetStore writing the register before it looks at the exception
LetStore_Eager(var_name, e) ==
    Eff(e.pos, StoreVariable(variables_, var_name, e.val), <<>>, e.diag,
        e.thrown, FALSE)

\* let_statement() after expression() returned e
LetStore(var_name, e) ==
    IF e.thrown
    THEN Eff(e.pos, variables_, <<>>, e.diag, TRUE, FALSE)
    ELSE Eff(e.pos, StoreVariable(variables_, var_name, e.val), <<>>, e.diag,
             FALSE, FALSE)

\* let_statement keeping the letter's case as the register's key
let_statement_NoFold(p) ==
    IF current_token(p) # "LETTER"
    THEN Fatal(p, <<>>, <<>>, "Syntax Error: Expected variable name")
    ELSE IF ~accept_ok(next_token(p), "EQUAL")
    THEN Fatal(next_token(p), <<>>, <<>>, AcceptMessage(next_token(p), "EQUAL"))
    ELSE LetStore(get_token_data(p),
                  expression(next_token(next_token(p)), <<>>))

let_statement(p) ==
    IF current_token(p) # "LETTER"
    THEN Fatal(p, <<>>, <<>>, "Syntax Error: Expected variable name")
    ELSE IF ~accept_ok(next_token(p), "EQUAL")
    THEN Fatal(next_token(p), <<>>, <<>>, AcceptMessage(next_token(p), "EQUAL"))
    ELSE LetStore(ToLower(get_token_data(p)),
                  expression(next_token(next_token(p)), <<>>))

\* the cursor find_target_line() moves to from p when line p is not the target
NextLine(q) == IF current_token(q) = "EOL" THEN next_token(q) ELSE q

\* find_target_line comparing every number token with the target, as
\* jump_linenum() does, instead of the first token of each line
RECURSIVE find_target_line_AnyToken(_, _)
find_target_line_AnyToken(p, line_number) ==
    IF tokenizer_finished(p) THEN [found |-> FALSE, pos |-> p]
    ELSE IF current_token(p) = "NUMBER" /\ get_num(p) = line_number
         THEN [found |-> TRUE, pos |-> next_token(p)]
         ELSE find_target_line_AnyToken(next_token(p), line_number)

\* find_target_line(line_number) with the cursor on p
RECURSIVE find_target_line(_, _)
find_target_line(p, line_number) ==
    IF tokenizer_finished(p) THEN [found |-> FALSE, pos |-> p]
    ELSE IF current_token(p) = "NUMBER" /\ get_num(p) = line_number
         THEN [found |-> TRUE, pos |-> next_token(p)]
         ELSE find_target_line(NextLine(LineEnd(p)), line_number)

\* the jump after tokenizer_->reset(): f is find_target_line's answer
Rescan(f, line_number, d) ==
    IF f.found
    THEN Eff(f.pos, variables_, <<>>, d, FALSE, FALSE)
    ELSE Fatal(f.pos, <<>>, d, InternalMessage(line_number))

\* JumpTo without the existence check
JumpTo_NoCheck(p, line_number, d) ==
    Rescan(find_target_line(reset, line_number), line_number, d)

\* JumpTo scanning on from the cursor, without tokenizer_->reset()
JumpTo_NoReset(p, line_number, d) ==
    IF line_number \notin line_positions_
    THEN Fatal(p, <<>>, d, NotFoundMessage(line_number))
    ELSE Rescan(find_target_line(p, line_number), line_number, d)

\* the existence check and the reset-and-rescan of if_statement() and
\* goto_statement(); p is the cursor after the statement's own tokens
JumpTo(p, line_number, d) ==
    IF line_number \notin line_positions_
    THEN Fatal(p, <<>>, d, NotFoundMessage(line_number))
    ELSE Rescan(find_target_line(reset, line_number), line_number, d)

\* IfTarget jumping whatever the condition is
IfTarget_AlwaysJump(c, n) ==
    IF current_token(n) # "NUMBER"
    THEN Fatal(n, <<>>, c.diag, "Syntax Error: Expected line number after THEN")
    ELSE JumpTo(next_token(n), get_num(n), c.diag)

\* IfTarget making the existence check before it looks at the condition
IfTarget_ChecksIndexFirst(c, n) ==
    IF current_token(n) # "NUMBER"
    THEN Fatal(n, <<>>, c.diag, "Syntax Error: Expected line number after THEN")
    ELSE IF get_num(n) \notin line_positions_
         THEN Fatal(next_token(n), <<>>, c.diag, NotFoundMessage(get_num(n)))
         ELSE IF c.val # 0
              THEN JumpTo(next_token(n), get_num(n), c.diag)
              ELSE Eff(NextLine(next_token(n)), variables_, <<>>, c.diag,
                       FALSE, FALSE)

\* if_statement() once THEN was accepted: n is the cursor after THEN
IfTarget(c, n) ==
    IF current_token(n) # "NUMBER"
    THEN Fatal(n, <<>>, c.diag, "Syntax Error: Expected line number after THEN")
    ELSE IF c.val # 0
         THEN JumpTo(next_token(n), get_num(n), c.diag)
         ELSE Eff(NextLine(next_token(n)), variables_, <<>>, c.diag, FALSE, FALSE)

\* if_statement() after relation() returned c
IfThen(c) ==
    IF c.thrown THEN Eff(c.pos, variables_, <<>>, c.diag, TRUE, FALSE)
    ELSE IF ~accept_ok(c.pos, "THEN")
         THEN Fatal(c.pos, <<>>, c.diag, AcceptMessage(c.pos, "THEN"))
         ELSE IfTarget(c, next_token(c.pos))

if_statement(p) == IfThen(relation(next_token(p), <<>>))

\* GotoTarget jumping without asking for the end of line
GotoTarget_NoEol(n) ==
    IF ~accept_ok(n, "NUMBER")
    THEN Fatal(n, <<>>, <<>>, AcceptMessage(n, "NUMBER"))
    ELSE JumpTo(NextLine(next_token(n)), get_num(n), <<>>)

\* goto_statement() with n the cursor after GOTO
GotoTarget(n) ==
    IF ~accept_ok(n, "NUMBER")
    THEN Fatal(n, <<>>, <<>>, AcceptMessage(n, "NUMBER"))
    ELSE IF ~accept_ok(next_token(n), "EOL")
         THEN Fatal(next_token(n), <<>>, <<>>, AcceptMessage(next_token(n), "EOL"))
         ELSE JumpTo(next_token(next_token(n)), get_num(n), <<>>)

goto_statement(p) == GotoTarget(next_token(p))

is_statement_end(token) == token \in {"EOL", "EOF_TOKEN"}

\* the result of the item loop of print_statement()
Printed(p, out, d, t) == [pos |-> p, out |-> out, diag |-> d, thrown |-> t]

\* the SEPARATOR case leaving need_space set
SeparatorItem_KeepsNeedSpace == [out |-> <<" ">>, need_space |-> TRUE]

\* case SEPARATOR: the chunk written and the need_space left
SeparatorItem == [out |-> <<" ">>, need_space |-> FALSE]

\* if (need_space) std::cout << " "
ItemSpace(need_space) == IF need_space THEN <<" ">> ELSE <<>>

RECURSIVE PrintLoop(_, _, _, _)

\* the expression item: out already holds the space written before it
PrintExpression(out, e) ==
    IF e.thrown THEN Printed(e.pos, out, e.diag, TRUE)
    ELSE PrintLoop(e.pos, TRUE, Append(out, ToString(e.val)), e.diag)

\* PrintLoop without the line-number test at the head of the loop
PrintLoop_NoLineNumberStop(p, need_space, out, d) ==
    IF tokenizer_finished(p) \/ is_statement_end(current_token(p))
    THEN Printed(p, out, d, FALSE)
    ELSE CASE current_token(p) = "STRING" ->
                PrintLoop(next_token(p), TRUE,
                          out \o ItemSpace(need_space) \o <<get_string(p)>>, d)
           [] current_token(p) = "SEPARATOR" ->
                PrintLoop(next_token(p), SeparatorItem.need_space,
                          out \o SeparatorItem.out, d)
           [] current_token(p) \in {"LETTER", "NUMBER", "LEFT_PAREN"} ->
                PrintExpression(out \o ItemSpace(need_space), expression(p, d))
           [] OTHER -> Printed(p, out, d, FALSE)

\* the item loop of print_statement(): cursor, need_space, chunks and
\* diagnostics so far
PrintLoop(p, need_space, out, d) ==
    IF tokenizer_finished(p) \/ is_statement_end(current_token(p))
       \/ is_line_number(p)
    THEN Printed(p, out, d, FALSE)
    ELSE CASE current_token(p) = "STRING" ->
                PrintLoop(next_token(p), TRUE,
                          out \o ItemSpace(need_space) \o <<get_string(p)>>, d)
           [] current_token(p) = "SEPARATOR" ->
                PrintLoop(next_token(p), SeparatorItem.need_space,
                          out \o SeparatorItem.out, d)
           [] current_token(p) \in {"LETTER", "NUMBER", "LEFT_PAREN"} ->
                PrintExpression(out \o ItemSpace(need_space), expression(p, d))
           [] OTHER -> Printed(p, out, d, FALSE)

\* PrintEnd returning at a line number before the newline is written
PrintEnd_NoNewlineAtLineNumber(l) ==
    IF l.thrown THEN Eff(l.pos, variables_, l.out, l.diag, TRUE, FALSE)
    ELSE IF is_line_number(l.pos)
    THEN Eff(l.pos, variables_, l.out, l.diag, FALSE, FALSE)
    ELSE IF current_token(l.pos) = "EOF_TOKEN"
    THEN Eff(l.pos, variables_, Append(l.out, "\n"), l.diag, FALSE, TRUE)
    ELSE Eff(NextLine(l.pos), variables_, Append(l.out, "\n"), l.diag,
             FALSE, FALSE)

\* print_statement() from the label end_print on
PrintEnd(l) ==
    IF l.thrown THEN Eff(l.pos, variables_, l.out, l.diag, TRUE, FALSE)
    ELSE IF is_line_number(l.pos)
    THEN Eff(l.pos, variables_, Append(l.out, "\n"), l.diag, FALSE, FALSE)
    ELSE IF current_token(l.pos) = "EOF_TOKEN"
    THEN Eff(l.pos, variables_, Append(l.out, "\n"), l.diag, FALSE, TRUE)
    ELSE Eff(NextLine(l.pos), variables_, Append(l.out, "\n"), l.diag,
             FALSE, FALSE)

print_statement(p) == PrintEnd(PrintLoop(next_token(p), FALSE, <<>>, <<>>))

\* rem_statement leaving the cursor on REM
rem_statement_Stays(p) == Eff(p, variables_, <<>>, <<>>, FALSE, FALSE)

rem_statement(p) == Eff(skip_to_eol(p), variables_, <<>>, <<>>, FALSE, FALSE)

statement(p) ==
    CASE current_token(p) = "REM" -> rem_statement(p)
      [] current_token(p) = "PRINT" -> print_statement(p)
      [] current_token(p) = "IF" -> if_statement(p)
      [] current_token(p) = "GOTO" -> goto_statement(p)
      [] current_token(p) = "LET" -> let_statement(next_token(p))
      [] current_token(p) = "LETTER" -> let_statement(p)
      [] OTHER -> Fatal(p, <<>>, <<>>, "Syntax Error: Unrecognized statement")

\* line_statement() skipping empty lines
RECURSIVE SkipEmptyLines(_)
SkipEmptyLines(p) ==
    IF current_token(p) = "EOL" THEN SkipEmptyLines(next_token(p)) ELSE p

\* line_statement() moving past a leading line number
SkipLineNumber(q) == IF current_token(q) = "NUMBER" THEN next_token(q) ELSE q

\* the cursor on which line_statement() calls statement()
StatementStart(p) == SkipLineNumber(SkipEmptyLines(p))

line_statement(p) ==
    IF current_token(SkipEmptyLines(p)) = "EOF_TOKEN"
    THEN Eff(SkipEmptyLines(p), variables_, <<>>, <<>>, FALSE, TRUE)
    ELSE statement(StatementStart(p))

\* build_line_map(): the scan from the cursor p with the entries found so far
RECURSIVE ScanLineNumbers(_, _)
ScanLineNumbers(p, found) ==
    IF tokenizer_finished(p) THEN found
    ELSE ScanLineNumbers(
            next_token(p),
            IF current_token(p) = "NUMBER" /\ is_valid_line_number(p, get_num(p))
            THEN found \cup {get_num(p)} ELSE found)

\* build_line_map scanning from where the cursor is
build_line_map_NoReset == [lines |-> ScanLineNumbers(pos, {}), pos |-> reset]

build_line_map == [lines |-> ScanLineNumbers(reset, {}), pos |-> reset]

-----------------------------------------------------------------------------
(* Programs.  A source line is its leading number, its statement and its   *)
(* end: LF when a line feed follows, EOS when the source ends there.  The  *)
(* character after a number that ends a line is that end.                  *)

LineEnding(e) == IF e = "LF" THEN <<EOL>> ELSE <<>>

Line(n, body, e) == <<N(n, "SP")>> \o body \o LineEnding(e)

\* an integer operand as source text: a literal, or (0 - k) for -k
NumExpr(v) ==
    IF v >= 0 THEN <<N(v, "OTHER")>>
    ELSE <<K("LEFT_PAREN"), N(0, "OTHER"), K("MINUS"), N(-v, "OTHER"),
           K("RIGHT_PAREN")>>

Operands == (-MaxOperand)..MaxOperand

\* 10 LET q = n / d
\* 20 PRINT q
DivProgram(n, d) ==
    Line(10, <<K("LET"), V("q"), K("EQUAL")>> \o NumExpr(n) \o <<K("SLASH")>>
             \o NumExpr(d), "LF")
    \o Line(20, <<K("PRINT"), V("q")>>, "LF") \o <<EOF_TOKEN>>

\* 10 IF x op y THEN 30
\* 20 PRINT 1
\* 30 PRINT 2
RelProgram(x, op, y) ==
    Line(10, <<K("IF")>> \o NumExpr(x) \o <<K(op)>> \o NumExpr(y)
             \o <<K("THEN"), N(30, "LF")>>, "LF")
    \o Line(20, <<K("PRINT"), N(1, "LF")>>, "LF")
    \o Line(30, <<K("PRINT"), N(2, "EOS")>>, "EOS") \o <<EOF_TOKEN>>

\* 10 IF x THEN 100
\* 20 PRINT 1
\* 100 PRINT 2
TruthProgram(x) ==
    Line(10, <<K("IF")>> \o NumExpr(x) \o <<K("THEN"), N(100, "LF")>>, "LF")
    \o Line(20, <<K("PRINT"), N(1, "LF")>>, "LF")
    \o Line(100, <<K("PRINT"), N(2, "LF")>>, "LF") \o <<EOF_TOKEN>>

\* 10 LET a = 2
\* 20 LET b = a * 3 + 1
\* 30 PRINT a, b
\* 40 GOTO 10
LoopProgram ==
    Line(10, <<K("LET"), V("a"), K("EQUAL"), N(2, "LF")>>, "LF")
    \o Line(20, <<K("LET"), V("b"), K("EQUAL"), V("a"), K("ASTERISK"),
                  N(3, "SP"), K("PLUS"), N(1, "LF")>>, "LF")
    \o Line(30, <<K("PRINT"), V("a"), K("SEPARATOR"), V("b")>>, "LF")
    \o Line(40, <<K("GOTO"), N(10, "LF")>>, "LF") \o <<EOF_TOKEN>>

\* 10 PRINT "HI" 5
HiProgram == Line(10, <<K("PRINT"), S("HI"), N(5, "EOS")>>, "EOS") \o <<EOF_TOKEN>>

\* 10 PRINT 10/0
DivZeroProgram ==
    Line(10, <<K("PRINT"), N(10, "OTHER"), K("SLASH"), N(0, "EOS")>>, "EOS")
    \o <<EOF_TOKEN>>

\* 10 PRINT 1
\* 20 IF 1 THEN 30          (the source ends right after 30)
LastNumberProgram ==
    Line(10, <<K("PRINT"), N(1, "LF")>>, "LF")
    \o Line(20, <<K("IF"), N(1, "SP"), K("THEN"), N(30, "EOS")>>, "EOS")
    \o <<EOF_TOKEN>>

\* the statements of the generated programs, e the end of their line
Bodies(e) ==
    { <<K("PRINT"), V("a")>>,
      <<K("PRINT"), S("HI"), V("B"), K("SEPARATOR"), K("SEPARATOR"), N(5, e)>>,
      <<K("PRINT"), K("SEPARATOR"), S("x"), S("y"), N(5, e)>>,
      <<K("PRINT"), V("a"), N(20, "SP"), K("PLUS"), N(1, e)>>,
      <<K("LET"), V("a"), K("EQUAL"), V("a"), K("PLUS"), N(1, e)>>,
      <<V("B"), K("EQUAL"), N(50, "SP"), K("MINUS"), N(47, e)>>,
      <<K("LET"), V("a"), K("EQUAL"), K("LEFT_PAREN"), N(1, e)>>,
      <<K("GOTO"), N(10, e)>>,
      <<K("GOTO"), N(20, e)>>,
      <<K("GOTO"), N(30, e)>>,
      <<K("GOTO"), N(15, e)>>,
      <<K("IF"), V("a"), K("LT"), N(2, "SP"), K("THEN"), N(10, e)>>,
      <<K("IF"), V("A"), K("THEN"), N(20, e)>>,
      <<K("IF"), N(1, "SP"), K("THEN"), N(40, e)>>,
      <<K("REM"), K("GOTO"), N(60, e)>>,
      <<K("THEN")>> }

\* statements that are cut short or end on a token that starts no item
SyntaxBodies(e) ==
    { <<K("PRINT"), N(1, "SP"), K("THEN")>>,
      <<K("PRINT"), N(2, "SP"), K("LEFT_PAREN")>>,
      <<K("LET"), K("EQUAL"), N(5, e)>>,
      <<K("LET"), V("a"), K("EQUAL"), K("ASTERISK"), N(2, e)>>,
      <<K("IF"), N(0, "SP"), K("THEN"), K("PRINT")>>,
      <<K("IF"), N(0, "SP"), K("GOTO"), N(10, e)>>,
      <<K("IF"), N(0, "SP"), K("THEN"), N(75, e)>>,
      <<K("GOTO"), V("a")>>,
      <<K("GOTO"), N(10, "SP"), K("PLUS"), N(1, e)>> }

Endings == {"LF", "EOS"}

\* the token streams of exactly k lines numbered 10, 20, ..., each ended by LF
RECURSIVE LinesOf(_)
LinesOf(k) ==
    IF k = 0 THEN {<<>>}
    ELSE {pre \o Line(10 * k, b, "LF") : pre \in LinesOf(k - 1), b \in Bodies("LF")}

\* the programs of at most n lines, the last line with either end
GeneratedUpTo(n) ==
    UNION { UNION { {pre \o Line(10 * k, b, e) \o <<EOF_TOKEN>> :
                        pre \in LinesOf(k - 1), b \in Bodies(e)} :
                    e \in Endings } :
            k \in 1..n }

GeneratedPrograms == GeneratedUpTo(MaxLines)

\* 10 PRINT 1/0
\* 20 LET = 5
\* 30 PRINT 3
WarnThenFatalProgram ==
    Line(10, <<K("PRINT"), N(1, "OTHER"), K("SLASH"), N(0, "LF")>>, "LF")
    \o Line(20, <<K("LET"), K("EQUAL"), N(5, "LF")>>, "LF")
    \o Line(30, <<K("PRINT"), N(3, "LF")>>, "LF") \o <<EOF_TOKEN>>

\* the operands, operators and groupings of the expression programs
ExprOperands == {2, 3, 8}

ExprOps == {"PLUS", "MINUS", "ASTERISK", "SLASH"}

ExprShapes == {"flat", "left", "right"}

\* x o1 y o2 z as source text: flat, (x o1 y) o2 z or x o1 (y o2 z)
ExprTokens(s, x, o1, y, o2, z) ==
    CASE s = "flat" ->
            <<N(x, "SP"), K(o1), N(y, "SP"), K(o2), N(z, "LF")>>
      [] s = "left" ->
            <<K("LEFT_PAREN"), N(x, "SP"), K(o1), N(y, "OTHER"),
              K("RIGHT_PAREN"), K(o2), N(z, "LF")>>
      [] s = "right" ->
            <<N(x, "SP"), K(o1), K("LEFT_PAREN"), N(y, "SP"), K(o2),
              N(z, "OTHER"), K("RIGHT_PAREN")>>

\* LET r =
ExprHead == <<K("LET"), V("r"), K("EQUAL")>>

\* 10 LET r = x o1 y o2 z
ExprProgram(s, x, o1, y, o2, z) ==
    Line(10, ExprHead \o ExprTokens(s, x, o1, y, o2, z), "LF") \o <<EOF_TOKEN>>

ExprPrograms ==
    {ExprProgram(s, x, o1, y, o2, z) :
        s \in ExprShapes, x \in ExprOperands, o1 \in ExprOps,
        y \in ExprOperands, o2 \in ExprOps, z \in ExprOperands}

\* 10 LET a = a + 1
\* 10 PRINT a
\* 20 IF a > 1 THEN 40
\* 30 GOTO 10
\* 40 PRINT 7
\* 40 PRINT 8
JumpProgram ==
    Line(10, <<K("LET"), V("a"), K("EQUAL"), V("a"), K("PLUS"), N(1, "LF")>>, "LF")
    \o Line(10, <<K("PRINT"), V("a")>>, "LF")
    \o Line(20, <<K("IF"), V("a"), K("GT"), N(1, "SP"), K("THEN"), N(40, "LF")>>,
            "LF")
    \o Line(30, <<K("GOTO"), N(10, "LF")>>, "LF")
    \o Line(40, <<K("PRINT"), N(7, "LF")>>, "LF")
    \o Line(40, <<K("PRINT"), N(8, "EOS")>>, "EOS") \o <<EOF_TOKEN>>

\* 10 PRINT 1 20 PRINT 2        (one physical line)
StackedProgram ==
    Line(10, <<K("PRINT"), N(1, "SP"), N(20, "SP"), K("PRINT"), N(2, "LF")>>, "LF")
    \o <<EOF_TOKEN>>

\* 10 PRINT 20
PrintTwentyProgram == Line(10, <<K("PRINT"), N(20, "LF")>>, "LF") \o <<EOF_TOKEN>>

\* 10 PRINT 1
\*                              (an empty line)
\* 20 PRINT 2
BlankLineProgram ==
    Line(10, <<K("PRINT"), N(1, "LF")>>, "LF") \o <<EOL>>
    \o Line(20, <<K("PRINT"), N(2, "LF")>>, "LF") \o <<EOF_TOKEN>>

\* the programs of one statement b of SyntaxBodies: alone, before line
\* 20 PRINT a, and after line 10 LET a = a + 1
SyntaxPrograms ==
    UNION { {Line(10, b, e) \o <<EOF_TOKEN>> : b \in SyntaxBodies(e)}
            \cup {Line(10, b, "LF") \o Line(20, <<K("PRINT"), V("a")>>, e)
                     \o <<EOF_TOKEN>> : b \in SyntaxBodies("LF")}
            \cup {Line(10, <<K("LET"), V("a"), K("EQUAL"), V("a"), K("PLUS"),
                             N(1, "LF")>>, "LF")
                     \o Line(20, b, e) \o <<EOF_TOKEN>> : b \in SyntaxBodies(e)} :
            e \in Endings }

\* expressions whose first term is followed by a number token
NumberAfterTermBodies ==
    { <<K("LET"), V("a"), K("EQUAL"), N(2, "SP"), N(20, "SP"), K("PLUS"),
        N(3, "LF")>>,
      <<K("LET"), V("a"), K("EQUAL"), N(2, "SP"), K("ASTERISK"), N(3, "SP"),
        N(30, "LF")>>,
      <<K("LET"), V("a"), K("EQUAL"), N(2, "SP"), N(20, "OTHER"), K("PLUS"),
        N(3, "LF")>>,
      <<K("LET"), V("a"), K("EQUAL"), N(2, "SP"), N(15, "SP"), K("MINUS"),
        N(3, "LF")>>,
      <<K("LET"), V("a"), K("EQUAL"), K("LEFT_PAREN"), N(2, "SP"), N(20, "SP"),
        K("RIGHT_PAREN")>>,
      <<K("LET"), V("a"), K("EQUAL"), K("LEFT_PAREN"), N(2, "SP"), K("PLUS"),
        N(3, "SP"), N(20, "SP"), K("RIGHT_PAREN")>>,
      <<K("PRINT"), V("a"), K("PLUS"), N(1, "SP"), N(20, "LF")>>,
      <<K("PRINT"), N(7, "SP"), K("MINUS"), K("LEFT_PAREN"), N(2, "SP"),
        N(10, "SP"), K("PLUS"), N(3, "OTHER"), K("RIGHT_PAREN")>>,
      <<K("IF"), N(1, "SP"), N(20, "SP"), K("THEN"), N(20, "LF")>>,
      <<K("IF"), N(2, "SP"), K("LT"), N(3, "SP"), N(20, "SP"), K("PLUS"),
        N(1, "LF")>> }

\* 10 <body> / 20 PRINT a, each body of NumberAfterTermBodies
NumberAfterTermPrograms ==
    {Line(10, b, "LF") \o Line(20, <<K("PRINT"), V("a")>>, "EOS")
        \o <<EOF_TOKEN>> : b \in NumberAfterTermBodies}

\* 5 PRINT 1
\* 15 PRINT 2
OddLinesProgram ==
    Line(5, <<K("PRINT"), N(1, "LF")>>, "LF")
    \o Line(15, <<K("PRINT"), N(2, "LF")>>, "LF") \o <<EOF_TOKEN>>

\* 10 <jump> / n PRINT 7, the line n led by the number token leader
JumpToLedLine(jump, leader) ==
    Line(10, jump, "LF") \o <<leader, K("PRINT"), N(7, "LF"), EOL, EOF_TOKEN>>

\* GOTO n and a true IF ... THEN n
JumpsTo(n) ==
    { <<K("GOTO"), N(n, "LF")>>,
      <<K("IF"), N(1, "SP"), K("THEN"), N(n, "LF")>> }

\* the leading numbers the heuristic rejects: 5, 15, and 20 with PRINT
\* written right after it (20PRINT 7)
RejectedLeaders == {N(5, "SP"), N(15, "SP"), N(20, "OTHER")}

\* 20PRINT 7
\* 30 IF 1 THEN 20             (the source ends after the target)
JumpAtEndProgram ==
    <<N(20, "OTHER"), K("PRINT"), N(7, "LF"), EOL>>
    \o Line(30, <<K("IF"), N(1, "SP"), K("THEN"), N(20, "EOS")>>, "EOS")
    \o <<EOF_TOKEN>>

RejectedLeaderPrograms ==
    {OddLinesProgram, JumpAtEndProgram}
    \cup UNION { {JumpToLedLine(j, l) : j \in JumpsTo(l.num)} :
                  l \in RejectedLeaders }

ScenarioPrograms ==
    {BlankLineProgram,StackedProgram, PrintTwentyProgram, JumpProgram, LoopProgram, HiProgram, DivZeroProgram, LastNumberProgram,
     WarnThenFatalProgram}

Programs ==
    ScenarioPrograms
    \cup GeneratedPrograms
    \cup {DivProgram(n, d) : n \in Operands, d \in Operands}
    \cup {RelProgram(x, op, y) : x \in Operands, op \in ComparisonTokens, y \in Operands}
    \cup {TruthProgram(x) : x \in Operands \cup {5}}
    \cup ExprPrograms
    \cup SyntaxPrograms
    \cup NumberAfterTermPrograms
    \cup RejectedLeaderPrograms

-----------------------------------------------------------------------------
(* The state machine. *)

\* SUBARUU::SUBARUU on a source whose token stream is one of Programs
Init ==
    /\ prog \in Programs
    /\ pos = 1
    /\ variables_ = [c \in Letters |-> 0]
    /\ line_positions_ = {}
    /\ execution_finished_ = FALSE
    /\ skip_to_line_ = FALSE
    /\ target_line_ = -1
    /\ cout = <<>>
    /\ cerr = <<>>
    /\ pc = "constructed"

\* run() up to its loop: build_line_map()
RunStart ==
    /\ pc = "constructed"
    /\ line_positions_' = build_line_map.lines
    /\ pos' = build_line_map.pos
    /\ pc' = "running"
    /\ UNCHANGED <<prog, variables_, execution_finished_, skip_to_line_,
                   target_line_, cout, cerr>>

\* the run is followed while its output and its registers are within the bounds
Observed ==
    /\ Len(cout) < MaxOut
    /\ \A x \in DOMAIN variables_ : Abs(variables_[x]) <= MaxVal

\* the head of the loop of run()
Looping == pc = "running" /\ ~execution_finished_ /\ Observed

\* if (tokenizer_->finished()) { execution_finished_ = true; break; }
TokenizerFinished ==
    /\ Looping
    /\ tokenizer_finished(pos)
    /\ execution_finished_' = TRUE
    /\ pc' = "returned"
    /\ UNCHANGED <<prog, pos, variables_, line_positions_, skip_to_line_,
                   target_line_, cout, cerr>>

\* Exec with the exception caught inside the loop of run()
Exec_CatchesError(e) ==
    /\ pos' = e.pos
    /\ variables_' = e.store
    /\ cout' = cout \o e.out
    /\ cerr' = cerr \o e.diag
    /\ execution_finished_' = (execution_finished_ \/ e.fin)
    /\ pc' = IF e.fin THEN "returned" ELSE "running"
    /\ UNCHANGED <<prog, line_positions_, skip_to_line_, target_line_>>

\* the state after a statement with effect e; an exception leaves run()
Exec(e) ==
    /\ pos' = e.pos
    /\ variables_' = e.store
    /\ cout' = cout \o e.out
    /\ cerr' = cerr \o e.diag
    /\ execution_finished_' = (execution_finished_ \/ e.fin)
    /\ pc' = IF e.thrown THEN "aborted" ELSE IF e.fin THEN "returned" ELSE "running"
    /\ UNCHANGED <<prog, line_positions_, skip_to_line_, target_line_>>

\* the else branch of the loop: line_statement()
InLineStatement == Looping /\ ~tokenizer_finished(pos) /\ ~skip_to_line_

\* the token statement() dispatches on
StatementToken == current_token(StatementStart(pos))

EndOfFile ==
    /\ InLineStatement
    /\ current_token(SkipEmptyLines(pos)) = "EOF_TOKEN"
    /\ Exec(line_statement(pos))

Executes(tokens) ==
    /\ InLineStatement
    /\ current_token(SkipEmptyLines(pos)) # "EOF_TOKEN"
    /\ StatementToken \in tokens

RemStatement == Executes({"REM"}) /\ Exec(line_statement(pos))

PrintStatement == Executes({"PRINT"}) /\ Exec(line_statement(pos))

IfStatement == Executes({"IF"}) /\ Exec(line_statement(pos))

GotoStatement == Executes({"GOTO"}) /\ Exec(line_statement(pos))

LetStatement == Executes({"LET", "LETTER"}) /\ Exec(line_statement(pos))

UnrecognizedStatement ==
    /\ Executes({t \in {prog[i].type : i \in 1..Len(prog)} :
                    t \notin {"REM", "PRINT", "IF", "GOTO", "LET", "LETTER"}})
    /\ Exec(line_statement(pos))

Next ==
    \/ RunStart
    \/ TokenizerFinished
    \/ EndOfFile
    \/ RemStatement
    \/ PrintStatement
    \/ IfStatement
    \/ GotoStatement
    \/ LetStatement
    \/ UnrecognizedStatement

Spec == Init /\ [][Next]_vars

-----------------------------------------------------------------------------
(* The interpreter object used again: run() called once more after it      *)
(* returned or after its exception was caught.                             *)

\* run() is called again at most until std::cerr holds this many lines
MaxDiag == 2

\* while (!finished()) found false on entry
RunReturn ==
    /\ pc = "running"
    /\ execution_finished_
    /\ pc' = "returned"
    /\ UNCHANGED <<prog, pos, variables_, line_positions_, execution_finished_,
                   skip_to_line_, target_line_, cout, cerr>>

\* run() once more, up to its loop: build_line_map()
RunAgain ==
    /\ pc \in {"returned", "aborted"}
    /\ Len(cerr) < MaxDiag
    /\ line_positions_' = build_line_map.lines
    /\ pos' = build_line_map.pos
    /\ pc' = "running"
    /\ UNCHANGED <<prog, variables_, execution_finished_, skip_to_line_,
                   target_line_, cout, cerr>>

NextApi ==
    \/ Next
    \/ RunReturn
    \/ RunAgain

SpecApi == Init /\ [][NextApi]_vars

-----------------------------------------------------------------------------
(* The lookup entry point find_linenum() called between runs, and the      *)
(* branch of the loop of run() that searches for the line it asked for.    *)

\* find_linenum(): the Line Index and the cursor after 'build if empty'
LookupIndex ==
    IF line_positions_ = {} THEN build_line_map
    ELSE [lines |-> line_positions_, pos |-> pos]

\* find_linenum() is followed on the generated programs of at most this
\* many lines
MaxLookupLines == 1

\* the programs find_linenum() is called on
LookupPrograms == ScenarioPrograms \cup GeneratedUpTo(MaxLookupLines)

\* the line numbers find_linenum() is called with: those of the generated
\* programs and the next one
LookupTargets == {10 * k : k \in 1..(MaxLookupLines + 1)}

\* find_linenum(linenum) called while run() is not executing
FindLinenum ==
    /\ pc \in {"constructed", "returned", "aborted"}
    /\ Len(cerr) < MaxDiag
    /\ \E linenum \in LookupTargets :
          /\ line_positions_' = LookupIndex.lines
          /\ pos' = LookupIndex.pos
          /\ IF linenum \notin LookupIndex.lines
             THEN /\ cerr' = Append(cerr, ErrorLine(NotFoundMessage(linenum)))
                  /\ UNCHANGED <<skip_to_line_, target_line_>>
             ELSE /\ skip_to_line_' = TRUE
                  /\ target_line_' = linenum
                  /\ cerr' = cerr
    /\ UNCHANGED <<prog, variables_, execution_finished_, cout, pc>>

\* the flags run() keeps when the search finds the target line, without
\* target_line_ = -1
SearchCleared_KeepsTarget == [skip |-> FALSE, target |-> target_line_]

\* skip_to_line_ = false; target_line_ = -1;
SearchCleared == [skip |-> FALSE, target |-> -1]

\* the branch if (skip_to_line_) of the loop
Searching == Looping /\ ~tokenizer_finished(pos) /\ skip_to_line_

\* the searched line is found: statement() runs on its body
SearchMatch ==
    /\ Searching
    /\ current_token(pos) = "NUMBER"
    /\ get_num(pos) = target_line_
    /\ skip_to_line_' = SearchCleared.skip
    /\ target_line_' = SearchCleared.target
    /\ pos' = statement(next_token(pos)).pos
    /\ variables_' = statement(next_token(pos)).store
    /\ cout' = cout \o statement(next_token(pos)).out
    /\ cerr' = cerr \o statement(next_token(pos)).diag
    /\ execution_finished_'
          = (execution_finished_ \/ statement(next_token(pos)).fin)
    /\ pc' = IF statement(next_token(pos)).thrown THEN "aborted"
             ELSE IF statement(next_token(pos)).fin THEN "returned"
             ELSE "running"
    /\ UNCHANGED <<prog, line_positions_>>

\* a line led by another number is skipped
SearchOtherLine ==
    /\ Searching
    /\ current_token(pos) = "NUMBER"
    /\ get_num(pos) # target_line_
    /\ pos' = NextLine(LineEnd(pos))
    /\ UNCHANGED <<prog, variables_, line_positions_, execution_finished_,
                   skip_to_line_, target_line_, cout, cerr, pc>>

\* a line not led by a number is skipped
SearchUnnumbered ==
    /\ Searching
    /\ current_token(pos) # "NUMBER"
    /\ pos' = NextLine(LineEnd(pos))
    /\ UNCHANGED <<prog, variables_, line_positions_, execution_finished_,
                   skip_to_line_, target_line_, cout, cerr, pc>>

NextLookup ==
    \/ NextApi
    \/ FindLinenum
    \/ SearchMatch
    \/ SearchOtherLine
    \/ SearchUnnumbered

\* SUBARUU::SUBARUU on one of the programs find_linenum() is called on
InitLookup == prog \in LookupPrograms /\ Init

SpecLookup == InitLookup /\ [][NextLookup]_vars

-----------------------------------------------------------------------------
(* Properties. *)

Last(seq) == seq[Len(seq)]

\* the numbers that occur in the program
ProgramNumbers == {prog[i].num : i \in 1..Len(prog)}

\* the run loop is about to execute a statement led by token
AboutToExecute(token) ==
    /\ InLineStatement
    /\ current_token(SkipEmptyLines(pos)) # "EOF_TOKEN"
    /\ StatementToken = token

\* the cursor after the GOTO keyword about to be executed
GotoOperandAt == next_token(StatementStart(pos))

\* GOTO n is about to be executed
AtGoto(n) ==
    /\ AboutToExecute("GOTO")
    /\ current_token(GotoOperandAt) = "NUMBER"
    /\ get_num(GotoOperandAt) = n

\* GOTO n, followed by its end of line, is about to be executed
AtCompleteGoto(n) ==
    /\ AtGoto(n)
    /\ current_token(next_token(GotoOperandAt)) = "EOL"

\* the relation of the IF statement about to be executed
IfCondition == relation(next_token(StatementStart(pos)), <<>>)

\* IF <relation> THEN n is about to be executed and its relation is true
AtTrueIf(n) ==
    /\ AboutToExecute("IF")
    /\ ~IfCondition.thrown
    /\ IfCondition.val # 0
    /\ current_token(IfCondition.pos) = "THEN"
    /\ current_token(next_token(IfCondition.pos)) = "NUMBER"
    /\ get_num(next_token(IfCondition.pos)) = n

\* the cursor once the tokens of the jump statement are consumed
AfterJumpTokens ==
    IF StatementToken = "GOTO"
    THEN next_token(next_token(GotoOperandAt))
    ELSE next_token(next_token(IfCondition.pos))

\* some logical line has n as its leading number token
HasLine(n) ==
    \E i \in 1..Len(prog) :
        /\ prog[i].type = "NUMBER"
        /\ prog[i].num = n
        /\ (i = 1 \/ prog[i - 1].type = "EOL")

\* C1: a GOTO n, or an IF ... THEN n with a true relation, whose n is not in
\* the Line Index aborts the run with 'Line number n not found': the cursor
\* stays after the statement's tokens (it is not reset and no line is
\* searched for), nothing is printed, no variable changes, and no step
\* follows the abort.
C1_JumpOutsideIndexAborts ==
    [][ /\ pc # "aborted"
        /\ \A n \in ProgramNumbers :
              ((AtCompleteGoto(n) \/ AtTrueIf(n)) /\ n \notin line_positions_)
              => /\ pc' = "aborted"
                 /\ Last(cerr') = ErrorLine(NotFoundMessage(n))
                 /\ pos' = AfterJumpTokens
                 /\ pos' # reset
                 /\ cout' = cout
                 /\ variables_' = variables_ ]_vars

C1_Witness ==
    /\ pc = "aborted"
    /\ pos # reset
    /\ \E n \in ProgramNumbers \ line_positions_ :
          Last(cerr) = ErrorLine(NotFoundMessage(n))

\* C2: in a program no logical line of which is led by n, executing GOTO n
\* (or IF ... THEN n with a true relation) ends the run with a fatal error;
\* it prints nothing and changes no variable, nothing runs after it, also
\* when n is in the Line Index because it occurs elsewhere in the source.
C2_JumpToAbsentLineIsFatal ==
    [][ /\ pc = "aborted" => pc' = "aborted"
        /\ \A n \in ProgramNumbers :
              ((AtGoto(n) \/ AtTrueIf(n)) /\ ~HasLine(n))
              => /\ pc' = "aborted"
                 /\ cout' = cout
                 /\ variables_' = variables_
                 /\ execution_finished_' = FALSE ]_vars

C2_Witness ==
    /\ pc = "aborted"
    /\ \E n \in line_positions_ :
          /\ ~HasLine(n)
          /\ Last(cerr) = ErrorLine(InternalMessage(n))

\* the program 10 IF 1=2 THEN 30 / 20 PRINT 1 / 30 PRINT 2
IfFalseProgram == RelProgram(1, "EQUAL", 2)

\* C3 as stated: the program 10 IF 1=2 THEN 30 / 20 PRINT 1 / 30 PRINT 2
\* run to completion prints only the line 2.
C3_Original ==
    (prog = IfFalseProgram /\ pc = "returned") => cout = <<"2", "\n">>

\* C3, amended: the relation 1=2 is false, so no jump is taken and the run
\* falls through line 20; the complete output is the line 1 then the line 2,
\* and the run ends without a fatal error.
C3_IfFalseFallsThrough ==
    prog = IfFalseProgram
    => /\ pc # "aborted"
       /\ pc = "returned" => cout = <<"1", "\n", "2", "\n">>

C3_Witness == prog = IfFalseProgram /\ pc = "returned" /\ Len(cout) = 4

\* q is n / d truncated toward zero: q * d is no further from zero than n
\* and less than |d| away from n
IsTruncatedQuotient(q, n, d) ==
    /\ Abs(q * d) <= Abs(n)
    /\ Abs(n - q * d) < Abs(d)

DivideByZeroWarning == WarningLine("*warning: divide by zero")

\* C4: n / d in a term.  For d # 0 the value is the quotient truncated
\* toward zero and std::cerr stays empty; for d = 0 the value is 0, exactly
\* one warning is written, no fatal error is raised and the statement and
\* the run go on (the LET stores 0 and the PRINT after it prints it).
C4_SafeDivide ==
    /\ \A n \in Operands, d \in Operands :
          prog = DivProgram(n, d)
          => /\ pc # "aborted"
             /\ pc = "returned"
                => /\ cout = <<ToString(variables_["q"]), "\n">>
                   /\ d # 0 => /\ IsTruncatedQuotient(variables_["q"], n, d)
                               /\ cerr = <<>>
                   /\ d = 0 => /\ variables_["q"] = 0
                               /\ cerr = <<DivideByZeroWarning>>
    /\ prog = DivZeroProgram
          => /\ pc # "aborted"
             /\ pc = "returned"
                => cout = <<"0", "\n">> /\ cerr = <<DivideByZeroWarning>>

C4_Witness ==
    /\ prog = DivProgram(-3, 2)
    /\ pc = "returned"
    /\ variables_["q"] = -1
    /\ cout = <<"-1", "\n">>

\* the letters of the alphabet in upper case
UpperLetters == {Upper[i] : i \in 1..Len(Upper)}

\* the cursor on the letter of the assignment about to be executed
LetTargetAt ==
    IF StatementToken = "LET" THEN next_token(StatementStart(pos))
    ELSE StatementStart(pos)

\* an assignment to the letter x (in either case) is about to be executed
AssigningTo(x) ==
    /\ AboutToExecute("LET") \/ AboutToExecute("LETTER")
    /\ current_token(LetTargetAt) = "LETTER"
    /\ ToLower(get_token_data(LetTargetAt)) = x

\* the right-hand expression of the assignment about to be executed
LetValue == expression(next_token(next_token(LetTargetAt)), <<>>)

\* C5: the variable store always has exactly the 26 keys a..z; no read of a
\* letter, in either case, fails, and it yields the letter's register; all
\* registers are 0 after construction and a register stays 0 as long as its
\* letter is not assigned.
C5_TwentySixRegisters ==
    /\ \A x \in Letters : variables_[x] = 0
    /\ [](/\ DOMAIN variables_ = Letters
          /\ Cardinality(DOMAIN variables_) = 26
          /\ \A c \in Letters \cup UpperLetters :
                ReadVariable(variables_, ToLower(c)) = variables_[ToLower(c)]
          /\ \A i \in 1..Len(prog) :
                prog[i].type = "LETTER"
                => factor(i, <<>>)
                   = Val(variables_[ToLower(prog[i].str)], next_token(i), <<>>))
    /\ [][\A x \in Letters :
            (variables_[x] = 0 /\ ~AssigningTo(x)) => variables_'[x] = 0]_vars

C5_Witness ==
    /\ variables_["b"] = 3
    /\ variables_["a"] = 0
    /\ \E i \in 1..Len(prog) : prog[i].type = "LETTER" /\ prog[i].str = "B"
    /\ cout = <<"0", "\n">>

\* C6: only a completed assignment changes the variable store.  A step that
\* changes the store is an assignment to one letter x that did not throw,
\* and it changes x's register alone, to the value of its right-hand
\* expression; an assignment that completes leaves that value in x; every
\* other step (REM, PRINT, IF, GOTO, a jump, the Line Index construction, an
\* assignment that raises a fatal error) leaves all 26 registers unchanged.
C6_OnlyAssignmentWrites ==
    [][ /\ variables_' # variables_
           => \E x \in Letters :
                 /\ AssigningTo(x)
                 /\ pc' # "aborted"
                 /\ ~LetValue.thrown
                 /\ variables_' = [variables_ EXCEPT ![x] = LetValue.val]
        /\ \A x \in Letters :
              (AssigningTo(x) /\ pc' # "aborted")
              => /\ variables_'[x] = LetValue.val
                 /\ ReadVariable(variables_', ToLower(x)) = LetValue.val
        /\ \A x \in Letters :
              (AssigningTo(x) /\ pc' = "aborted") => variables_' = variables_
      ]_vars

C6_Witness ==
    /\ pc = "aborted"
    /\ variables_["a"] = 1
    /\ Last(cerr) = ErrorLine(AcceptMessage(pos, "RIGHT_PAREN"))

\* what the comparison op says of x and y
Holds(op, x, y) ==
    CASE op = "EQUAL" -> x = y
      [] op = "LT" -> x < y
      [] op = "GT" -> x > y
      [] op = "LT_EQ" -> x =< y
      [] op = "GT_EQ" -> ~(x < y)
      [] op = "NOT_EQUAL" -> x /= y

\* the programs 10 IF x op y THEN 30 / 20 PRINT 1 / 30 PRINT 2
RelPrograms ==
    {RelProgram(x, op, y) :
        x \in Operands, op \in ComparisonTokens, y \in Operands}

JumpedOutput == <<"2", "\n">>

FellThroughOutput == <<"1", "\n", "2", "\n">>

\* C7: relation() returns 1 or 0.  IF x op y THEN 30 jumps exactly when the
\* comparison op holds of the values x and y, for each of the six operators;
\* IF x THEN 100 jumps exactly when x is not zero (IF 0 THEN 100 never
\* jumps, IF 5 THEN 100 jumps, line 100 being there).
C7_RelationTruth ==
    /\ AboutToExecute("IF") => (IfCondition.thrown \/ IfCondition.val \in {0, 1})
    /\ prog \in RelPrograms
       => \A x \in Operands, y \in Operands, op \in ComparisonTokens :
             prog = RelProgram(x, op, y)
             => /\ pc # "aborted"
                /\ pc = "returned"
                   => cout = IF Holds(op, x, y) THEN JumpedOutput
                             ELSE FellThroughOutput
    /\ \A x \in Operands \cup {5} :
          prog = TruthProgram(x)
          => /\ pc # "aborted"
             /\ pc = "returned"
                => cout = IF x # 0 THEN JumpedOutput ELSE FellThroughOutput

C7_Witness ==
    /\ prog = TruthProgram(5)
    /\ pc = "returned"
    /\ cout = JumpedOutput

\* the number tokens the line-number heuristic of the specification accepts:
\* value >= 10, a multiple of 10, followed by a space, a carriage return, a
\* line feed or the end of the source
HeuristicLineNumbers ==
    {prog[i].num : i \in {k \in 1..Len(prog) :
        /\ prog[k].type = "NUMBER"
        /\ prog[k].num >= 10
        /\ prog[k].num % 10 = 0
        /\ prog[k].nx \in {"SP", "CR", "LF", "EOS"}}}

\* C8 as stated: once built, the Line Index is exactly the set of the values
\* of the number tokens that are >= 10, multiples of 10 and followed by a
\* space, a carriage return, a line feed or the end of the source; a
\* qualifying number that ends the source is recorded.
C8_Original == pc # "constructed" => line_positions_ = HeuristicLineNumbers

\* C9: building the Line Index again, after a run returned or was aborted
\* with the cursor anywhere, gives the membership set the first build gave;
\* every build leaves the cursor at program start and changes neither the
\* variable store nor the run-state flags nor the output.
C9_BuildLineMapIdempotent ==
    [][ (pc # "running" /\ pc' = "running")
        => /\ pos' = reset
           /\ pc # "constructed" => line_positions_' = line_positions_
           /\ UNCHANGED <<variables_, execution_finished_, skip_to_line_,
                          target_line_, cout, cerr>> ]_vars

C9_Witness ==
    /\ pc = "running"
    /\ pos = reset
    /\ ~execution_finished_
    /\ line_positions_ # {}
    /\ variables_["a"] = 1
    /\ Len(cerr) = 1

\* the cursor after the PRINT keyword about to be executed
PrintItemsAt == next_token(StatementStart(pos))

\* the cursor on the last token of the PRINT statement about to be executed
PrintItemsEnd == LineEnd(PrintItemsAt) - 1

\* the PRINT statement about to be executed is a list of strings, letters,
\* numbers and separators up to the end of its line, none of the numbers
\* looking like a line number
AtItemListPrint ==
    /\ AboutToExecute("PRINT")
    /\ \A i \in PrintItemsAt..PrintItemsEnd :
          /\ prog[i].type \in {"STRING", "LETTER", "NUMBER", "SEPARATOR"}
          /\ prog[i].type = "NUMBER"
             => ~(prog[i].num >= 10 /\ prog[i].num % 10 = 0)

\* the text of the one-token item on i
ItemText(i) ==
    CASE prog[i].type = "STRING" -> prog[i].str
      [] prog[i].type = "LETTER" -> ToString(variables_[ToLower(prog[i].str)])
      [] prog[i].type = "NUMBER" -> ToString(prog[i].num)

\* the items of the tokens i..j in order: a space for each separator, and a
\* space between two items with no separator between them
RECURSIVE Rendered(_, _)
Rendered(i, j) ==
    IF i > j THEN <<>>
    ELSE Rendered(i, j - 1)
         \o (IF prog[j].type = "SEPARATOR" THEN <<" ">>
             ELSE IF j > i /\ prog[j - 1].type # "SEPARATOR"
                  THEN <<" ", ItemText(j)>>
                  ELSE <<ItemText(j)>>)

\* the number of chunks of seq that are one space
Spaces(seq) == Cardinality({k \in 1..Len(seq) : seq[k] = " "})

\* what a step appended to std::cout
Written == SubSeq(cout', Len(cout) + 1, Len(cout'))

\* C10: a PRINT of one-token items writes the items in order, one space for
\* each separator token and one space between two items that follow each
\* other with no separator, no other space, then the newline: as many
\* spaces as separators plus pairs of adjacent items.  PRINT a, b with a = 2
\* and b = 7 writes 2 7, and PRINT "HI" 5 writes HI 5.
C10_PrintSpacing ==
    /\ [](prog = LoopProgram /\ Len(cout) >= 4
            => SubSeq(cout, 1, 4) = <<"2", " ", "7", "\n">>)
    /\ [](prog = HiProgram /\ pc = "returned" => cout = <<"HI", " ", "5", "\n">>)
    /\ [][ AtItemListPrint
           => /\ cout' = cout \o Rendered(PrintItemsAt, PrintItemsEnd) \o <<"\n">>
              /\ Spaces(Written)
                 = Cardinality({i \in PrintItemsAt..PrintItemsEnd :
                                   prog[i].type = "SEPARATOR"})
                   + Cardinality({i \in PrintItemsAt..(PrintItemsEnd - 1) :
                                     /\ prog[i].type # "SEPARATOR"
                                     /\ prog[i + 1].type # "SEPARATOR"})
              /\ pc' # "aborted" ]_vars

C10_Witness ==
    /\ prog = LoopProgram
    /\ variables_["a"] = 2
    /\ variables_["b"] = 7
    /\ cout = <<"2", " ", "7", "\n">>

\* the number of newline chunks of seq
Newlines(seq) == Cardinality({k \in 1..Len(seq) : seq[k] = "\n"})

\* the PRINT statement about to be executed completes: no fatal error is
\* raised in one of its expressions
PrintCompletes == AboutToExecute("PRINT") /\ ~line_statement(pos).thrown

\* C11: a PRINT statement that raises no fatal error writes exactly one
\* newline, as the last thing it writes, whether its item loop ended on an
\* end of line, the end of the file, a number that looks like a line number
\* or an unexpected token; no other step writes a newline, so the newlines
\* of the output count the PRINT statements completed.
C11_PrintEmitsOneNewline ==
    [][ /\ PrintCompletes
           => /\ pc' # "aborted"
              /\ Written # <<>>
              /\ Last(Written) = "\n"
              /\ Newlines(Written) = 1
              /\ Newlines(cout') = Newlines(cout) + 1
        /\ ~PrintCompletes => Newlines(cout') = Newlines(cout) ]_vars

C11_Witness ==
    /\ pc = "running"
    /\ current_token(pos) = "THEN"
    /\ pos > 1
    /\ current_token(pos - 1) = "NUMBER"
    /\ Len(cout) >= 2
    /\ Last(cout) = "\n"
    /\ Newlines(cout) = 1

\* the lines a step appended to std::cerr
Diagnosed == SubSeq(cerr', Len(cerr) + 1, Len(cerr'))

\* the token kinds of the program
ProgramTokens == {prog[i].type : i \in 1..Len(prog)}

\* the fatal diagnostics the interpreter can write for the program
FatalLines ==
    {ErrorLine(AcceptMessage(i, t)) :
        i \in 1..Len(prog),
        t \in {"RIGHT_PAREN", "EQUAL", "THEN", "NUMBER", "EOL"}}
    \cup {ErrorLine("Syntax Error: Unexpected token in factor: " \o t) :
            t \in ProgramTokens}
    \cup {ErrorLine("Syntax Error: Expected variable name"),
          ErrorLine("Syntax Error: Expected line number after THEN"),
          ErrorLine("Syntax Error: Unrecognized statement")}
    \cup {ErrorLine(NotFoundMessage(n)) : n \in ProgramNumbers}
    \cup {ErrorLine(InternalMessage(n)) : n \in ProgramNumbers}

\* the step wrote a fatal diagnostic
WroteFatal == \E k \in 1..Len(Diagnosed) : Diagnosed[k] \in FatalLines

\* the statement about to be executed is led by a token statement() does
\* not recognize
AtUnrecognized ==
    /\ InLineStatement
    /\ current_token(SkipEmptyLines(pos)) # "EOF_TOKEN"
    /\ StatementToken \notin {"REM", "PRINT", "IF", "GOTO", "LET", "LETTER"}

\* the assignment about to be executed has no variable name
AtLetWithoutName ==
    /\ AboutToExecute("LET")
    /\ current_token(LetTargetAt) # "LETTER"

\* the IF about to be executed has THEN but no number after it
AtIfWithoutNumber ==
    /\ AboutToExecute("IF")
    /\ ~IfCondition.thrown
    /\ current_token(IfCondition.pos) = "THEN"
    /\ current_token(next_token(IfCondition.pos)) # "NUMBER"

\* the step ends the run with the fatal diagnostic message, printing nothing
\* and changing no variable
AbortsWith(message) ==
    /\ pc' = "aborted"
    /\ Last(cerr') = ErrorLine(message)
    /\ cout' = cout
    /\ variables_' = variables_

\* C12: every fatal diagnostic ends the run at that point.  A step writes a
\* fatal diagnostic exactly when it aborts the run, the fatal diagnostic is
\* the last line of std::cerr and the only fatal one; an aborted run never
\* has Finished set and takes no further step (no token is consumed, nothing
\* is printed, no variable changes); an unrecognized leading token, an
\* assignment without a variable name and a THEN without a number are fatal;
\* a step that writes only the division-by-zero warning goes on.
C12_FatalTerminatesRun ==
    /\ [](pc = "aborted"
            => /\ ~execution_finished_
               /\ cerr # <<>>
               /\ Last(cerr) \in FatalLines
               /\ \A k \in 1..(Len(cerr) - 1) : cerr[k] = DivideByZeroWarning)
    /\ [][ /\ pc = "aborted" => UNCHANGED vars
           /\ pc # "aborted" => (WroteFatal <=> pc' = "aborted")
           /\ (Diagnosed # <<>> /\ ~WroteFatal)
              => /\ pc' # "aborted"
                 /\ \A k \in 1..Len(Diagnosed) : Diagnosed[k] = DivideByZeroWarning
           /\ AtUnrecognized => AbortsWith("Syntax Error: Unrecognized statement")
           /\ AtLetWithoutName => AbortsWith("Syntax Error: Expected variable name")
           /\ AtIfWithoutNumber
              => AbortsWith("Syntax Error: Expected line number after THEN")
         ]_vars

C12_Witness ==
    /\ prog = WarnThenFatalProgram
    /\ pc = "aborted"
    /\ ~execution_finished_
    /\ cout = <<"0", "\n">>
    /\ cerr = <<DivideByZeroWarning,
                ErrorLine("Syntax Error: Expected variable name")>>

\* the quotient of l by r truncated toward zero, 0 when r is 0
RefDiv(l, r) ==
    IF r = 0 THEN 0
    ELSE CHOOSE q \in (-Abs(l))..Abs(l) : IsTruncatedQuotient(q, l, r)

\* the arithmetic meaning of one operator
Apply(op, l, r) ==
    CASE op = "PLUS" -> l + r
      [] op = "MINUS" -> l - r
      [] op = "ASTERISK" -> l * r
      [] op = "SLASH" -> RefDiv(l, r)

\* * and / bind tighter than + and -
Tight(op) == op \in {"ASTERISK", "SLASH"}

\* the value standard precedence gives x o1 y o2 z in the grouping s
ExprValue(s, x, o1, y, o2, z) ==
    IF s = "right" \/ (s = "flat" /\ Tight(o2) /\ ~Tight(o1))
    THEN Apply(o1, x, Apply(o2, y, z))
    ELSE Apply(o2, Apply(o1, x, y), z)

\* the cursor on the first token of the expression of an expression program
ExprStart == Len(Line(10, ExprHead, "EOS")) + 1

\* the cursor on the end of line that follows the expression
ExprEnd == Len(prog) - 1

\* the grouping of the expression program: where its parenthesis opens
ExprShapeOf ==
    IF prog[ExprStart].type = "LEFT_PAREN" THEN "left"
    ELSE IF prog[ExprStart + 2].type = "LEFT_PAREN" THEN "right"
    ELSE "flat"

\* how far into the expression x, o1, y, o2 and z stand in the grouping s
ExprAt(s) ==
    CASE s = "flat" -> <<0, 1, 2, 3, 4>>
      [] s = "left" -> <<1, 2, 3, 5, 6>>
      [] s = "right" -> <<0, 1, 3, 4, 5>>

\* the k-th of x, o1, y, o2, z in the expression program
ExprPart(k) == prog[ExprStart + ExprAt(ExprShapeOf)[k]]

\* the value standard precedence gives the expression of the program
ExprProgramValue ==
    ExprValue(ExprShapeOf, ExprPart(1).num, ExprPart(2).type, ExprPart(3).num,
              ExprPart(4).type, ExprPart(5).num)

\* C13: for the expressions x o1 y o2 z over the operators + - * / in the
\* three groupings (none, left parentheses, right parentheses), expression()
\* returns the value of standard precedence and left associativity, a
\* parenthesized part being evaluated as a unit, without a fatal error and
\* with the cursor on the end of line after the expression; the LET stores
\* that value.  8 - 3 - 2 is 3, 8 / 2 / 2 is 2, and b = a * 3 + 1 is
\* (a * 3) + 1.
C13_ExpressionPrecedence ==
    /\ prog \in ExprPrograms
       => /\ prog = ExprProgram(ExprShapeOf, ExprPart(1).num, ExprPart(2).type,
                                ExprPart(3).num, ExprPart(4).type,
                                ExprPart(5).num)
          /\ ~expression(ExprStart, <<>>).thrown
          /\ expression(ExprStart, <<>>).val = ExprProgramValue
          /\ expression(ExprStart, <<>>).pos = ExprEnd
          /\ current_token(ExprEnd) = "EOL"
          /\ pc # "aborted"
          /\ pos # reset
             => /\ variables_["r"] = ExprProgramValue
                /\ pos \in {ExprEnd, ExprEnd + 1}
    /\ prog = ExprProgram("flat", 8, "MINUS", 3, "MINUS", 2) /\ pos # reset
       => variables_["r"] = 3
    /\ prog = ExprProgram("flat", 8, "SLASH", 2, "SLASH", 2) /\ pos # reset
       => variables_["r"] = 2
    /\ prog = ExprProgram("right", 8, "MINUS", 3, "MINUS", 2) /\ pos # reset
       => variables_["r"] = 7
    /\ prog = LoopProgram /\ variables_["b"] # 0
       => variables_["b"] = (variables_["a"] * 3) + 1

C13_Witness ==
    /\ prog = ExprProgram("flat", 2, "PLUS", 3, "ASTERISK", 8)
    /\ pos = ExprEnd
    /\ variables_["r"] = 26

\* the run was ended by the failed rescan for line n
RescanFailed(n) ==
    /\ pc = "aborted"
    /\ Last(cerr) = ErrorLine(InternalMessage(n))

\* C14 as stated: the Line Index and the rescan never disagree; a jump
\* whose target n is in the Line Index finds a logical line led by n, so no
\* run is ended by 'Internal Error: Failed to find valid line number n'.
C14_Original ==
    /\ \A n \in ProgramNumbers : ~RescanFailed(n)
    /\ \A n \in line_positions_ :
          (AtCompleteGoto(n) \/ AtTrueIf(n)) => find_target_line(reset, n).found

\* the number token on i is the first token of a logical line
LeadsLine(i) ==
    /\ prog[i].type = "NUMBER"
    /\ (i = 1 \/ prog[i - 1].type = "EOL")

\* the cursor on the leading number of the first logical line, in source
\* order, led by n
FirstLine(n) ==
    CHOOSE i \in 1..Len(prog) :
        /\ LeadsLine(i)
        /\ prog[i].num = n
        /\ \A j \in 1..(i - 1) : ~(LeadsLine(j) /\ prog[j].num = n)

\* C15: a GOTO n, or an IF with a true relation and target n, with n in
\* the Line Index and some logical line led by n, leaves the cursor on the
\* token after the leading number of the first such line in source order,
\* wherever the jumping line is (before or after it) and whatever other
\* occurrences of n the source has; it prints nothing and changes no
\* variable, and when that token is a statement token the next iteration of
\* the run loop dispatches on it.
C15_JumpLandsOnFirstLine ==
    [][ \A n \in ProgramNumbers :
           ((AtCompleteGoto(n) \/ AtTrueIf(n)) /\ n \in line_positions_
              /\ HasLine(n))
           => /\ pc' = "running"
              /\ pos' = FirstLine(n) + 1
              /\ cout' = cout
              /\ cerr' = cerr
              /\ variables_' = variables_
              /\ current_token(pos') \notin {"EOL", "NUMBER", "EOF_TOKEN"}
                 => /\ StatementStart(pos') = pos'
                    /\ ~tokenizer_finished(pos') ]_vars

C15_Witness ==
    /\ prog = JumpProgram
    /\ pc = "returned"
    /\ cout = <<"1", "\n", "2", "\n", "7", "\n", "8", "\n">>

\* an IF whose relation is false is about to be executed
AtFalseIf ==
    /\ AboutToExecute("IF")
    /\ ~IfCondition.thrown
    /\ IfCondition.val = 0

\* IF <relation> THEN n is about to be executed and its relation is false
AtFalseIfThen(n) ==
    /\ AtFalseIf
    /\ current_token(IfCondition.pos) = "THEN"
    /\ current_token(next_token(IfCondition.pos)) = "NUMBER"
    /\ get_num(next_token(IfCondition.pos)) = n

\* the cursor after the target number of the IF about to be executed
AfterIfNumber == next_token(next_token(IfCondition.pos))

\* C16: an IF whose relation is false still requires THEN and a number
\* (either missing is fatal); with both there, the step raises no error
\* whether or not n is in the Line Index or leads a line, prints nothing,
\* changes no variable, and moves the cursor forward past the number and
\* past an end of line directly after it, never back to the start; after
\* that end of line the cursor is on the first token of the next logical
\* line, whose statement the next iteration executes.
C16_IfFalseContinues ==
    [][ /\ (AtFalseIf /\ current_token(IfCondition.pos) # "THEN")
           => AbortsWith(AcceptMessage(IfCondition.pos, "THEN"))
        /\ (AtFalseIf /\ AtIfWithoutNumber)
           => AbortsWith("Syntax Error: Expected line number after THEN")
        /\ \A n \in ProgramNumbers :
              AtFalseIfThen(n)
              => /\ pc' = "running"
                 /\ cerr' = cerr
                 /\ cout' = cout
                 /\ variables_' = variables_
                 /\ pos' > pos
                 /\ pos' = IF current_token(AfterIfNumber) = "EOL"
                           THEN AfterIfNumber + 1 ELSE AfterIfNumber
                 /\ current_token(AfterIfNumber) = "EOL"
                    => /\ pos' = LineEnd(StatementStart(pos)) + 1
                       /\ current_token(pos' - 1) = "EOL" ]_vars

C16_Witness ==
    /\ pc = "returned"
    /\ cerr = <<>>
    /\ cout = <<"0", "\n">>
    /\ 75 \notin line_positions_
    /\ ~HasLine(75)
    /\ Len(prog) > 5
    /\ prog[4].type = "THEN"
    /\ prog[5].num = 75
    /\ prog[Len(prog) - 2].type = "PRINT"

\* the cursor after the operand of the GOTO about to be executed
AfterGotoNumber == next_token(GotoOperandAt)

\* C17: a GOTO whose next token is not a number, or whose number is not
\* followed by an end-of-line token (the end of the file included), ends
\* the run with the syntax error of accept(): the cursor stays on the
\* offending token, the existence check and the rescan are not reached
\* (the diagnostic is never 'not found' or 'Internal Error'), no jump
\* happens, also when n is in the Line Index and a line led by n exists.
C17_GotoSyntaxBeforeJump ==
    [][ /\ (AboutToExecute("GOTO") /\ current_token(GotoOperandAt) # "NUMBER")
           => /\ AbortsWith(AcceptMessage(GotoOperandAt, "NUMBER"))
              /\ pos' = GotoOperandAt
        /\ \A n \in ProgramNumbers :
              (AtGoto(n) /\ current_token(AfterGotoNumber) # "EOL")
              => /\ AbortsWith(AcceptMessage(AfterGotoNumber, "EOL"))
                 /\ pos' = AfterGotoNumber
                 /\ pos' # reset
                 /\ Len(cerr') = Len(cerr) + 1
                 /\ execution_finished_' = FALSE ]_vars

C17_Witness ==
    /\ pc = "aborted"
    /\ current_token(pos) = "EOF_TOKEN"
    /\ Last(cerr) = ErrorLine(AcceptMessage(pos, "EOL"))
    /\ pos > 2
    /\ prog[pos - 2].type = "GOTO"
    /\ prog[pos - 1].type = "NUMBER"
    /\ prog[pos - 1].num \in line_positions_
    /\ HasLine(prog[pos - 1].num)

\* the token on i is a number >= 10, a multiple of 10, followed by a space,
\* a carriage return or a line feed
LooksLikeLineNumber(i) ==
    /\ prog[i].type = "NUMBER"
    /\ prog[i].num >= 10
    /\ prog[i].num % 10 = 0
    /\ prog[i].nx \in {"SP", "CR", "LF"}

\* the PRINT about to be executed has one-token items up to the token k,
\* which looks like a line number
PrintMeetsLineNumber(k) ==
    /\ AboutToExecute("PRINT")
    /\ k \in PrintItemsAt..PrintItemsEnd
    /\ LooksLikeLineNumber(k)
    /\ \A i \in PrintItemsAt..(k - 1) :
          /\ prog[i].type \in {"STRING", "LETTER", "NUMBER", "SEPARATOR"}
          /\ ~LooksLikeLineNumber(i)

\* C18: a PRINT whose item loop meets a number that looks like a line
\* number writes the items before it and the newline, nothing of the number
\* or after it, leaves the cursor on the number, sets neither Finished nor
\* an error; the next iteration of the run loop takes the number as a
\* leading line number and dispatches statement() on the token after it.
\* 10 PRINT 1 20 PRINT 2 on one line prints 1 then 2; 10 PRINT 20 prints an
\* empty line and then fails on the end of line after 20.
C18_PrintStopsAtLineNumber ==
    /\ [][ \A k \in 1..Len(prog) :
              PrintMeetsLineNumber(k)
              => /\ cout' = cout \o Rendered(PrintItemsAt, k - 1) \o <<"\n">>
                 /\ pos' = k
                 /\ pc' = "running"
                 /\ execution_finished_' = FALSE
                 /\ cerr' = cerr ]_vars
    /\ [][ (InLineStatement /\ LooksLikeLineNumber(pos))
           => /\ StatementStart(pos) = pos + 1
              /\ pos' = statement(pos + 1).pos
              /\ cout' = cout \o statement(pos + 1).out
              /\ (pc' = "aborted") = statement(pos + 1).thrown ]_vars
    /\ [](prog = StackedProgram
            => /\ pc # "aborted"
               /\ pc = "returned" => cout = <<"1", "\n", "2", "\n">>)
    /\ [](prog = PrintTwentyProgram /\ pc \notin {"constructed", "running"}
            => /\ pc = "aborted"
               /\ cout = <<"\n">>
               /\ cerr = <<ErrorLine("Syntax Error: Unrecognized statement")>>)

C18_Witness ==
    /\ prog = StackedProgram
    /\ pc = "running"
    /\ pos = 4
    /\ LooksLikeLineNumber(pos)
    /\ cout = <<"1", "\n">>
    /\ ~execution_finished_

\* C19: skip_to_line_ is false and target_line_ is -1 after construction,
\* and no step of run(), its entry included, sets the flag or the target
\* while the flag is down: a run that starts with the flag down keeps it
\* down and every jump in it is the reset-and-rescan.  The flag goes up only
\* in a call of find_linenum made while run() is not executing, with a
\* target that is in the Line Index; the search branch of the loop runs only
\* after such a call and takes the flag and the target back to false, -1.
C19_SearchModeDead ==
    /\ skip_to_line_ = FALSE /\ target_line_ = -1
    /\ [](skip_to_line_ <=> target_line_ # -1)
    /\ [][ ((pc = "running" \/ pc' = "running") /\ ~skip_to_line_)
           => /\ skip_to_line_' = FALSE
              /\ target_line_' = -1
              /\ ~Searching ]_vars
    /\ [][ (~skip_to_line_ /\ skip_to_line_')
           => /\ pc # "running"
              /\ pc' = pc
              /\ target_line_' \in line_positions_'
              /\ UNCHANGED <<variables_, execution_finished_, cout, cerr>> ]_vars
    /\ [][ \A n \in line_positions_ :
              ((AtCompleteGoto(n) \/ AtTrueIf(n)) /\ HasLine(n))
              => /\ pos' = find_target_line(reset, n).pos
                 /\ skip_to_line_' = FALSE ]_vars

C19_Witness ==
    /\ prog = BlankLineProgram
    /\ pc = "returned"
    /\ cout = <<"2", "\n">>
    /\ skip_to_line_ = FALSE
    /\ target_line_ = -1

\* C19, the run alone: in every state of construction followed by run()
\* the flag is down and the target is -1
FlagDownThroughRun == skip_to_line_ = FALSE /\ target_line_ = -1

\* the statement about to be executed takes a jump, or tries to: a GOTO,
\* or an IF whose relation is true
AboutToJump ==
    \/ AboutToExecute("GOTO")
    \/ /\ AboutToExecute("IF")
       /\ ~IfCondition.thrown
       /\ IfCondition.val # 0

\* the iteration the run loop is about to take, as line_statement() makes it
Iteration == line_statement(pos)

\* C20: the cursor is always within the token stream; an iteration of the
\* run loop that is not a GOTO and not an IF with a true relation never
\* moves the cursor backward, and it sets Finished, raises a fatal error or
\* moves the cursor forward by at least one token.  The distance from the
\* cursor to the end of the stream then bounds the iterations left, so a run
\* in which no jump is taken reaches Finished or a fatal error.
C20_NoJumpRunTerminates ==
    /\ [](pos \in 1..Len(prog))
    /\ []((InLineStatement /\ ~AboutToJump)
            => /\ Iteration.pos >= pos
               /\ Iteration.pos <= Len(prog)
               /\ \/ Iteration.pos > pos
                  \/ Iteration.fin
                  \/ Iteration.thrown)
    /\ [][ (pc = "running" /\ ~AboutToJump)
           => /\ pos' >= pos
              /\ \/ pos' > pos
                 \/ execution_finished_'
                 \/ pc' = "aborted" ]_vars

C20_Witness ==
    /\ prog = BlankLineProgram
    /\ pc = "returned"
    /\ execution_finished_
    /\ pos = Len(prog)
    /\ cout = <<"1", "\n", "2", "\n">>

\* The evaluator without the lookahead of expression(): factor(), term()
\* and expression() as in the source, except that expression() goes from
\* its first term straight to the + / - loop.
RECURSIVE factor_NoLookahead(_, _), term_NoLookahead(_, _),
          TermLoop_NoLookahead(_, _, _), expression_NoLookahead(_, _),
          ExpressionLoop_NoLookahead(_, _, _)

factor_NoLookahead(p, d) ==
    CASE current_token(p) = "NUMBER" -> Val(get_num(p), next_token(p), d)
      [] current_token(p) = "LETTER" ->
            Val(ReadVariable(variables_, ToLower(get_token_data(p))),
                next_token(p), d)
      [] current_token(p) = "LEFT_PAREN" ->
            FactorParen(expression_NoLookahead(next_token(p), d))
      [] OTHER ->
            Throw(p, d, "Syntax Error: Unexpected token in factor: "
                            \o current_token(p))

TermDivide_NoLookahead(q, f) ==
    TermLoop_NoLookahead(q.val, f.pos, f.diag \o q.diag)

TermStep_NoLookahead(result, token, f) ==
    IF f.thrown THEN f
    ELSE IF token = "ASTERISK"
         THEN TermLoop_NoLookahead(result * f.val, f.pos, f.diag)
         ELSE TermDivide_NoLookahead(safe_divide(result, f.val), f)

TermLoop_NoLookahead(result, p, d) ==
    IF current_token(p) \notin {"ASTERISK", "SLASH"} THEN Val(result, p, d)
    ELSE TermStep_NoLookahead(result, current_token(p),
                              factor_NoLookahead(next_token(p), d))

TermFirst_NoLookahead(f) ==
    IF f.thrown THEN f ELSE TermLoop_NoLookahead(f.val, f.pos, f.diag)

term_NoLookahead(p, d) == TermFirst_NoLookahead(factor_NoLookahead(p, d))

ExpressionStep_NoLookahead(result, token, t) ==
    IF t.thrown THEN t
    ELSE IF token = "PLUS"
         THEN ExpressionLoop_NoLookahead(result + t.val, t.pos, t.diag)
         ELSE ExpressionLoop_NoLookahead(result - t.val, t.pos, t.diag)

ExpressionLoop_NoLookahead(result, p, d) ==
    IF current_token(p) \notin {"PLUS", "MINUS"} THEN Val(result, p, d)
    ELSE ExpressionStep_NoLookahead(result, current_token(p),
                                    term_NoLookahead(next_token(p), d))

ExpressionFirst_NoLookahead(t) ==
    IF t.thrown THEN t ELSE ExpressionLoop_NoLookahead(t.val, t.pos, t.diag)

expression_NoLookahead(p, d) ==
    ExpressionFirst_NoLookahead(term_NoLookahead(p, d))

\* the first term t of an expression is followed by a number that satisfies
\* the line-number heuristic
MeetsLineNumber(t) ==
    /\ ~t.thrown
    /\ current_token(t.pos) = "NUMBER"
    /\ is_valid_line_number(t.pos, get_num(t.pos))

\* expression() called on p takes its line-number exit
ExitsEarlyAt(p) == MeetsLineNumber(term(p, <<>>))

\* the tokens an expression is evaluated from: the one after LET x =, after
\* PRINT, after IF, after a comparison operator and after a parenthesis
ExpressionStarts ==
    {p \in 2..Len(prog) :
        prog[p - 1].type \in {"EQUAL", "PRINT", "IF", "LEFT_PAREN", "LT", "GT",
                              "LT_EQ", "GT_EQ", "NOT_EQUAL", "SEPARATOR"}}

\* C21: the line-number exit of expression() cannot be observed: called on
\* any token of the program, with the registers of any reachable state,
\* expression() and the evaluator without the lookahead give the same
\* value, leave the cursor on the same token, write the same diagnostics and
\* throw in the same cases; where expression() takes the exit, the cursor
\* stays on the number, which the + / - loop would not have consumed.
C21_LookaheadUnobservable ==
    \A p \in 1..Len(prog) :
        /\ expression(p, <<>>) = expression_NoLookahead(p, <<>>)
        /\ ExitsEarlyAt(p)
           => /\ expression(p, <<>>).pos = term(p, <<>>).pos
              /\ current_token(expression(p, <<>>).pos) = "NUMBER"

C21_Witness ==
    /\ pc = "aborted"
    /\ prog \in NumberAfterTermPrograms
    /\ variables_["a"] = 2
    /\ current_token(pos) = "PLUS"
    /\ \E p \in ExpressionStarts :
          /\ ExitsEarlyAt(p)
          /\ prog[p - 1].type = "EQUAL"
          /\ current_token(expression(p, <<>>).pos + 1) = "PLUS"

\* the number token on i leads a logical line and does not satisfy the
\* line-number heuristic
RejectedLeader(i) ==
    /\ LeadsLine(i)
    /\ ~is_valid_line_number(i, prog[i].num)

\* some logical line is led by a number token of value n that does not
\* satisfy the heuristic
HasRejectedLine(n) ==
    \E i \in 1..Len(prog) : RejectedLeader(i) /\ prog[i].num = n

\* the run loop is on a logical line led by such a number
AtRejectedLeader ==
    /\ InLineStatement
    /\ RejectedLeader(SkipEmptyLines(pos))

\* C22 as stated: the run loop consumes a leading number that fails the
\* heuristic and executes the statement after it; the value of such a
\* number is never in the Line Index; every GOTO n, and every IF with a
\* true relation and target n, where n leads a line in this way, ends the
\* run with 'Line number n not found'.
C22_Original ==
    /\ [](AtRejectedLeader
           => line_statement(pos) = statement(next_token(SkipEmptyLines(pos))))
    /\ [](pc # "constructed"
           => \A i \in 1..Len(prog) :
                 RejectedLeader(i) => prog[i].num \notin line_positions_)
    /\ [][ \A n \in ProgramNumbers :
              ((AtCompleteGoto(n) \/ AtTrueIf(n)) /\ HasRejectedLine(n))
              => /\ pc' = "aborted"
                 /\ Last(cerr') = ErrorLine(NotFoundMessage(n)) ]_vars

\* C22, the lines led by a number that is below 10 or not a multiple of
\* 10: they run in sequence, their number is never in the Line Index, and
\* every jump to it ends the run with 'Line number n not found'
NonTenLeaderNeverIndexed ==
    /\ [](AtRejectedLeader
           => line_statement(pos) = statement(next_token(SkipEmptyLines(pos))))
    /\ [](\A n \in line_positions_ : n >= 10 /\ n % 10 = 0)
    /\ [][ \A n \in ProgramNumbers :
              ((AtCompleteGoto(n) \/ AtTrueIf(n)) /\ HasLine(n)
                  /\ (n < 10 \/ n % 10 # 0))
              => /\ pc' = "aborted"
                 /\ Last(cerr') = ErrorLine(NotFoundMessage(n)) ]_vars

\* 5 PRINT 1 / 15 PRINT 2 has run to its end and printed 1 and 2
OddLinesRan ==
    /\ prog = OddLinesProgram
    /\ pc = "returned"
    /\ cout = <<"1", "\n", "2", "\n">>

\* 10 GOTO 20 / 20PRINT 7 (or the same with IF 1 THEN 20) has jumped to
\* the line 20PRINT 7 and printed 7
JumpedToRejectedLine ==
    /\ prog \in {JumpToLedLine(j, N(20, "OTHER")) : j \in JumpsTo(20)}
    /\ cout = <<"7", "\n">>

=============================================================================
